---- MODULE Spec2Model ----
(***************************************************************************)
(* Falven/formtext: the FormProvider reducer, the context hooks, the       *)
(* useFormHandler callbacks, the useFormValidity hook and its metadata     *)
(* walk, over an explicit object heap.                                     *)
(*                                                                         *)
(* JavaScript objects have identity and are shared by reference, so the    *)
(* model keeps a heap: a sequence of objects, an object's identity being   *)
(* its index.  A property holds either a primitive or a reference.  The    *)
(* reducer allocates the objects its object literals create and returns    *)
(* the reference of the new state object.                                  *)
(***************************************************************************)
EXTENDS Integers, Sequences, FiniteSets, TLC

VARIABLES
    heap,          \* the objects allocated so far, by identity
    heapAtCreation,\* the heap as it was when the provider was created
    initialState,  \* FormProvider's initialState prop (a reference)
    state,         \* useReducer's current state (a reference)
    prevState,     \* the state object the last reducer call received
    queue,         \* actions dispatched and not yet reduced
    lastAction,    \* the action of the last reducer call
    steps,         \* number of calls the application has made (dispatch, setIsFormValid)
    formName,      \* useFormValidity's formName argument
    validateTouch, \* useFormValidity's validateTouch argument
    isFormValid,   \* useFormValidity's useState value
    effectDeps,    \* the formsMeta object the effect last ran with (0: never)
    thrown,        \* the error that unmounted the tree ("none" when alive)
    overridden,    \* setIsFormValid was called by the component since the last effect
    provided,      \* the components that call the hooks are below a FormProvider
    rendered,      \* the last hook call of a rendering component and its outcome
    lastCall,      \* the last call of a useFormHandler callback and its arguments
    walk           \* the effect's position when its loop is followed step by step

vars == <<heap, heapAtCreation, initialState, state, prevState, queue, lastAction, steps,
          formName, validateTouch, isFormValid, effectDeps, thrown, overridden,
          provided, rendered, lastCall, walk>>

providerVars == <<heap, heapAtCreation, initialState, state, prevState, queue, lastAction, steps>>
hookVars == <<formName, validateTouch, isFormValid, effectDeps, thrown, overridden, walk>>
treeVars == <<provided, rendered>>

----------------------------------------------------------------------------
(* Bounds *)

MaxSteps == 2

\* the longest queue a step of the walk may build; longer than any queue the
\* walk builds on the metadata explored
MaxQueue == 8

----------------------------------------------------------------------------
(* JavaScript values and objects *)

Prim(s) == [ref |-> 0, prim |-> s]
Ref(i) == [ref |-> i, prim |-> ""]
Undefined == Prim("undefined")
True == Prim("true")
False == Prim("false")
IsRef(v) == v.ref # 0

NoProps == [k \in {} |-> Undefined]
Obj(p) == [kind |-> "object", props |-> p]
Arr(p) == [kind |-> "array", props |-> p]

\* Object.hasOwn(o, k)
hasOwn(o, k) == k \in DOMAIN o.props

\* o[k]: undefined for a property the object does not have
Get(o, k) == IF k \in DOMAIN o.props THEN o.props[k] ELSE Undefined

\* { ...p, ...q }: the own properties of p, overridden by those of q
Spread(p, q) ==
    [k \in (DOMAIN p) \cup (DOMAIN q) |-> IF k \in DOMAIN q THEN q[k] ELSE p[k]]

\* the properties that "...v" contributes: those of the object v refers to
\* (index-keyed for an array), none for undefined
SpreadOf(h, v) == IF IsRef(v) THEN h[v.ref].props ELSE NoProps

One(k, v) == [x \in {k} |-> v]

FormKeys == {"f", "g"}
FieldKeys == {"a", "b"}
Values == {Prim("v1"), Prim("v2")}

----------------------------------------------------------------------------
(* Actions (form-types.ts FormAction) *)

Action(t, f, k, v, p) ==
    [type |-> t, formKey |-> f, fieldKey |-> k, fieldValue |-> v, payload |-> p]

NoAction == Action("none", "", "", Undefined, NoProps)

\* a call of one of useFormHandler's callbacks
Call(handler, f, k, v, err) ==
    [handler |-> handler, formKey |-> f, fieldKey |-> k, fieldValue |-> v,
     errorMessage |-> err]

NoCall == Call("none", "", "", Undefined, Undefined)

\* a hook call: the hook, its formName argument ("" when it has none),
\* whether it threw, and the values it returned
Render(hook, name, threw, value) ==
    [hook |-> hook, name |-> name, threw |-> threw, value |-> value]

NoRender == Render("none", "", FALSE, <<>>)

ActionTypes ==
    {"SET_FORM_VALUE", "SET_FORM_FIELD_VALUE", "SET_FORM_META_VALUE",
     "SET_FORM_META_FIELD_VALUE", "RESET_FORM", "RESET_FORM_META", "RESET"}

----------------------------------------------------------------------------
(* FormProvider's reducer.  Returns the heap extended by the objects the   *)
(* object literals create, and the reference the reducer returns.          *)

formsRef(h, st) == h[st].props["forms"].ref
formsMetaRef(h, st) == h[st].props["formsMeta"].ref

Returned(h, st) == [heap |-> h, state |-> st, threw |-> FALSE]

\* a variant that assigns state.forms[formKey] = form and returns a copy of state
WithForm_AssignsInPlace(h, st, f, form) ==
    LET n == Len(h)
        next == Obj(h[st].props)
    IN  Returned([h EXCEPT ![formsRef(h, st)].props = Spread(@, One(f, Ref(n + 1)))]
                     \o <<form, next>>,
                 n + 2)

\* a variant that also copies formsMeta into a new object
WithForm_CopiesFormsMeta(h, st, f, form) ==
    LET n == Len(h)
        forms == Obj(Spread(h[formsRef(h, st)].props, One(f, Ref(n + 1))))
        formsMeta == Obj(h[formsMetaRef(h, st)].props)
        next == Obj(Spread(h[st].props,
                           "forms" :> Ref(n + 2) @@ "formsMeta" :> Ref(n + 3)))
    IN  Returned(h \o <<form, forms, formsMeta, next>>, n + 4)

\* return { ...state, forms: { ...state.forms, [formKey]: form } }
WithForm(h, st, f, form) ==
    LET n == Len(h)
        forms == Obj(Spread(h[formsRef(h, st)].props, One(f, Ref(n + 1))))
        next == Obj(Spread(h[st].props, One("forms", Ref(n + 2))))
    IN  Returned(h \o <<form, forms, next>>, n + 3)

\* a variant that assigns state.formsMeta = { ... } and returns state itself
WithFormMeta_ReturnsState(h, st, f, meta) ==
    LET n == Len(h)
        formsMeta == Obj(Spread(h[formsMetaRef(h, st)].props, One(f, Ref(n + 1))))
    IN  Returned([h EXCEPT ![st].props = Spread(@, One("formsMeta", Ref(n + 2)))]
                     \o <<meta, formsMeta>>,
                 st)

\* a variant that assigns state.formsMeta[formKey] = meta and returns a copy
\* of state
WithFormMeta_AssignsInPlace(h, st, f, meta) ==
    LET n == Len(h)
        next == Obj(h[st].props)
    IN  Returned([h EXCEPT ![formsMetaRef(h, st)].props = Spread(@, One(f, Ref(n + 1)))]
                     \o <<meta, next>>,
                 n + 2)

\* a variant that omits the spread of state.formsMeta
WithFormMeta_OnlyThisForm(h, st, f, meta) ==
    LET n == Len(h)
        formsMeta == Obj(One(f, Ref(n + 1)))
        next == Obj(Spread(h[st].props, One("formsMeta", Ref(n + 2))))
    IN  Returned(h \o <<meta, formsMeta, next>>, n + 3)

\* return { ...state, formsMeta: { ...state.formsMeta, [formKey]: meta } }
WithFormMeta(h, st, f, meta) ==
    LET n == Len(h)
        formsMeta == Obj(Spread(h[formsMetaRef(h, st)].props, One(f, Ref(n + 1))))
        next == Obj(Spread(h[st].props, One("formsMeta", Ref(n + 2))))
    IN  Returned(h \o <<meta, formsMeta, next>>, n + 3)

\* Object.hasOwn(state.forms, formKey) ? state.forms[formKey] : {}
OwnForm(h, st, f) ==
    LET forms == h[formsRef(h, st)]
    IN  IF hasOwn(forms, f) THEN SpreadOf(h, forms.props[f]) ELSE NoProps

\* Object.hasOwn(state.formsMeta, formKey) ? state.formsMeta[formKey] : {}
OwnFormMeta(h, st, f) ==
    LET formsMeta == h[formsMetaRef(h, st)]
    IN  IF hasOwn(formsMeta, f) THEN SpreadOf(h, formsMeta.props[f]) ELSE NoProps

\* state.formsMeta[formKey]?.[fieldKey] ?? {}
OwnFieldMeta(h, st, f, k) ==
    LET formMeta == Get(h[formsMetaRef(h, st)], f)
    IN  IF IsRef(formMeta) THEN SpreadOf(h, Get(h[formMeta.ref], k)) ELSE NoProps

\* a variant without the spread of the previous form object
caseSetFormValue_ReplacesForm(h, st, action) ==
    WithForm(h, st, action.formKey, Obj(action.payload))

\* case 'SET_FORM_VALUE'
caseSetFormValue(h, st, action) ==
    WithForm(h, st, action.formKey,
             Obj(Spread(OwnForm(h, st, action.formKey), action.payload)))

\* a variant without the spread of the previous form object
caseSetFormFieldValue_DropsSiblings(h, st, action) ==
    WithForm(h, st, action.formKey, Obj(One(action.fieldKey, action.fieldValue)))

\* case 'SET_FORM_FIELD_VALUE'
caseSetFormFieldValue(h, st, action) ==
    WithForm(h, st, action.formKey,
             Obj(Spread(OwnForm(h, st, action.formKey),
                        One(action.fieldKey, action.fieldValue))))

\* a variant without the spread of the previous metadata of the form
caseSetFormMetaValue_ReplacesMeta(h, st, action) ==
    WithFormMeta(h, st, action.formKey, Obj(action.payload))

\* case 'SET_FORM_META_VALUE'
caseSetFormMetaValue(h, st, action) ==
    WithFormMeta(h, st, action.formKey,
                 Obj(Spread(OwnFormMeta(h, st, action.formKey), action.payload)))

\* a variant without the spread of the metadata of the form's other fields
caseSetFormMetaFieldValue_DropsOtherFields(h, st, action) ==
    LET n == Len(h)
        field == Obj(Spread(OwnFieldMeta(h, st, action.formKey, action.fieldKey),
                            action.payload))
    IN  WithFormMeta(h \o <<field>>, st, action.formKey, Obj(One(action.fieldKey, Ref(n + 1))))

\* a variant without the spread of the previous field metadata
caseSetFormMetaFieldValue_ReplacesField(h, st, action) ==
    LET n == Len(h)
        field == Obj(action.payload)
    IN  WithFormMeta(h \o <<field>>, st, action.formKey,
                     Obj(Spread(OwnFormMeta(h, st, action.formKey),
                                One(action.fieldKey, Ref(n + 1)))))

\* case 'SET_FORM_META_FIELD_VALUE'
\* a variant that assigns the payload's properties to the field's metadata
\* object when there is one, and returns the state it was given
caseSetFormMetaFieldValue_AssignsInPlace(h, st, action) ==
    LET n == Len(h)
        formMeta == Get(h[formsMetaRef(h, st)], action.formKey)
        old == IF IsRef(formMeta) THEN Get(h[formMeta.ref], action.fieldKey) ELSE Undefined
        field == Obj(Spread(OwnFieldMeta(h, st, action.formKey, action.fieldKey),
                            action.payload))
    IN  IF IsRef(old) /\ h[old.ref].kind = "object"
        THEN Returned([h EXCEPT ![old.ref].props = Spread(@, action.payload)], st)
        ELSE WithFormMeta(h \o <<field>>, st, action.formKey,
                          Obj(Spread(OwnFormMeta(h, st, action.formKey),
                                     One(action.fieldKey, Ref(n + 1)))))

caseSetFormMetaFieldValue(h, st, action) ==
    LET n == Len(h)
        field == Obj(Spread(OwnFieldMeta(h, st, action.formKey, action.fieldKey),
                            action.payload))
    IN  WithFormMeta(h \o <<field>>, st, action.formKey,
                     Obj(Spread(OwnFormMeta(h, st, action.formKey),
                                One(action.fieldKey, Ref(n + 1)))))

\* the earlier reducer's RESET_FORM: return initialState
caseResetForm_ReturnsInitialState(h, st, init, action) == Returned(h, init)

\* case 'RESET_FORM'
caseResetForm(h, st, init, action) == WithForm(h, st, action.formKey, Obj(NoProps))

\* a variant that answers RESET_FORM_META as the earlier reducer answers
\* RESET_FORM: return initialState
caseResetFormMeta_ReturnsInitialState(h, st, init, action) == Returned(h, init)

\* a variant that deletes the form's entry from formsMeta
caseResetFormMeta_DeletesKey(h, st, init, action) ==
    LET n == Len(h)
        old == h[formsMetaRef(h, st)].props
        formsMeta == Obj([g \in DOMAIN old \ {action.formKey} |-> old[g]])
        next == Obj(Spread(h[st].props, One("formsMeta", Ref(n + 1))))
    IN  Returned(h \o <<formsMeta, next>>, n + 2)

\* case 'RESET_FORM_META'
caseResetFormMeta(h, st, init, action) == WithFormMeta(h, st, action.formKey, Obj(NoProps))

\* a variant that rebuilds the state from the current one, emptying every form
caseReset_EmptiesForms(h, st, init) ==
    LET n == Len(h)
        forms == Obj([f \in DOMAIN h[formsRef(h, st)].props |-> Ref(n + 1)])
        next == Obj(Spread(h[st].props, One("forms", Ref(n + 2))))
    IN  Returned(h \o <<Obj(NoProps), forms, next>>, n + 3)

\* case 'RESET': return initialState
caseReset(h, st, init) == Returned(h, init)

\* a variant whose default case returns the state it was given
caseDefault_ReturnsState(h, st, action) == Returned(h, st)

\* default: throw new Error(`Unhandled value: ...`)
caseDefault(h, st, action) == [heap |-> h, state |-> st, threw |-> TRUE]

\* the switch of the earlier reducer: no case for RESET_FORM_META and RESET
reducer_WithoutResetMetaAndReset(h, st, init, action) ==
    CASE action.type = "SET_FORM_VALUE" -> caseSetFormValue(h, st, action)
      [] action.type = "SET_FORM_FIELD_VALUE" -> caseSetFormFieldValue(h, st, action)
      [] action.type = "SET_FORM_META_VALUE" -> caseSetFormMetaValue(h, st, action)
      [] action.type = "SET_FORM_META_FIELD_VALUE" -> caseSetFormMetaFieldValue(h, st, action)
      [] action.type = "RESET_FORM" -> caseResetForm(h, st, init, action)
      [] OTHER -> caseDefault(h, st, action)

reducer(h, st, init, action) ==
    CASE action.type = "SET_FORM_VALUE" -> caseSetFormValue(h, st, action)
      [] action.type = "SET_FORM_FIELD_VALUE" -> caseSetFormFieldValue(h, st, action)
      [] action.type = "SET_FORM_META_VALUE" -> caseSetFormMetaValue(h, st, action)
      [] action.type = "SET_FORM_META_FIELD_VALUE" -> caseSetFormMetaFieldValue(h, st, action)
      [] action.type = "RESET_FORM" -> caseResetForm(h, st, init, action)
      [] action.type = "RESET_FORM_META" -> caseResetFormMeta(h, st, init, action)
      [] action.type = "RESET" -> caseReset(h, st, init)
      [] OTHER -> caseDefault(h, st, action)

----------------------------------------------------------------------------
(* isFieldMeta.ts and useFormValidity.tsx *)

\* typeof item === 'object' && 'id' in item && 'required' in item &&
\* 'touched' in item && 'errorMessage' in item
isFieldMeta(h, item) ==
    /\ IsRef(item)
    /\ "id" \in DOMAIN h[item.ref].props
    /\ "required" \in DOMAIN h[item.ref].props
    /\ "touched" \in DOMAIN h[item.ref].props
    /\ "errorMessage" \in DOMAIN h[item.ref].props

\* the two conditions the effect passes to allFieldsMeetCondition:
\*   (meta) => meta.required !== true || (meta.touched ?? false)
\*   (meta) => meta.required !== true || meta.errorMessage === undefined
condition(c, meta) ==
    IF c = "haveBeenTouched"
    THEN Get(meta, "required") # True \/ Get(meta, "touched") = True
    ELSE Get(meta, "required") # True \/ Get(meta, "errorMessage") = Undefined

\* The order in which the walk visits the properties of an object.  (for...in
\* visits index keys first and then the others in insertion order; the
\* result of the walk does not depend on the order.)
KeyOrder ==
    <<"0", "1", "2", "a", "b", "c", "f", "g", "forms", "formsMeta",
      "__typename", "id", "required", "touched", "errorMessage", "showError">>

IndexKeys == <<"0", "1", "2">>

OwnKeys(o) == SelectSeq(KeyOrder, LAMBDA k : k \in DOMAIN o.props)

\* the elements of an array, in index order
Elements(o) == [i \in 1..Cardinality(DOMAIN o.props) |-> o.props[IndexKeys[i]]]

RECURSIVE Concat(_)
Concat(ss) == IF ss = <<>> THEN <<>> ELSE Head(ss) \o Concat(Tail(ss))

\* one field (an object-valued property, or an element of an array-valued
\* one): a FieldMeta is tested, anything else of type object is queued
\* unless visited
FieldFails(h, field, c) == isFieldMeta(h, field) /\ ~condition(c, h[field.ref])

FieldPushes(h, field, visited) ==
    IF IsRef(field) /\ ~isFieldMeta(h, field) /\ field.ref \notin visited
    THEN <<field.ref>>
    ELSE <<>>

ValueFails(h, value, c) ==
    /\ IsRef(value)
    /\ IF h[value.ref].kind = "array"
       THEN \E i \in DOMAIN Elements(h[value.ref]) :
                FieldFails(h, Elements(h[value.ref])[i], c)
       ELSE FieldFails(h, value, c)

ValuePushes(h, value, visited) ==
    IF ~IsRef(value) THEN <<>>
    ELSE IF h[value.ref].kind = "array"
    THEN Concat([i \in DOMAIN Elements(h[value.ref]) |->
                    FieldPushes(h, Elements(h[value.ref])[i], visited)])
    ELSE FieldPushes(h, value, visited)

\* the while loop of allFieldsMeetCondition: queue and visited as in the code.
\* (The queue holds objects only, so the "currentMeta === undefined" test
\* never fires; the metadata holds no null.)
RECURSIVE Walk(_, _, _, _)
Walk(h, q, visited, c) ==
    IF q = <<>> THEN TRUE
    ELSE LET currentMeta == Head(q)
             seen == visited \cup {currentMeta}
             keys == OwnKeys(h[currentMeta])
         IN  IF \E i \in DOMAIN keys : ValueFails(h, h[currentMeta].props[keys[i]], c)
             THEN FALSE
             ELSE Walk(h,
                       Tail(q) \o Concat([i \in DOMAIN keys |->
                           ValuePushes(h, h[currentMeta].props[keys[i]], seen)]),
                       seen, c)

allFieldsMeetCondition(h, formMeta, c) == Walk(h, <<formMeta>>, {}, c)

\* a variant that reads missing metadata as the empty object
useFormValidityEffect_DefaultsWhenMissing(h, st, name, touchFlag) ==
    LET formMeta == Get(h[formsMetaRef(h, st)], name)
    IN  [threw |-> FALSE,
         valid |-> IF formMeta = Undefined THEN TRUE
                   ELSE /\ allFieldsMeetCondition(h, formMeta.ref, "haveBeenTouched")
                        /\ allFieldsMeetCondition(h, formMeta.ref, "haveNoErrors")]

\* the body of the effect: what it throws, or the value it passes to
\* setIsFormValid.  validateTouch is a dependency of the effect and is not
\* read by it.
useFormValidityEffect(h, st, name, touchFlag) ==
    LET formMeta == Get(h[formsMetaRef(h, st)], name)
    IN  IF formMeta = Undefined
        THEN [threw |-> TRUE, valid |-> FALSE]
        ELSE [threw |-> FALSE,
              valid |-> /\ allFieldsMeetCondition(h, formMeta.ref, "haveBeenTouched")
                        /\ allFieldsMeetCondition(h, formMeta.ref, "haveNoErrors")]

\* The effect followed one iteration of its while loop at a time: where it
\* is (idle, walking, returned), the condition of the call of
\* allFieldsMeetCondition in progress, that call's queue and visited, and
\* the values the two calls returned.
NoWalk ==
    [pc |-> "idle", c |-> "haveBeenTouched", queue |-> <<>>, visited |-> {},
     haveBeenTouched |-> TRUE, haveNoErrors |-> TRUE]

\* const queue = [formMeta]; const visited = new Set()
StartWalk(w, formMeta, c) ==
    [w EXCEPT !.pc = "walking", !.c = c, !.queue = <<formMeta>>, !.visited = {}]

\* the for loop over the keys of queue.shift() reaches a return false
IterationFails(h, w) ==
    LET currentMeta == Head(w.queue)
        keys == OwnKeys(h[currentMeta])
    IN  \E i \in DOMAIN keys : ValueFails(h, h[currentMeta].props[keys[i]], w.c)

\* a variant that pushes every object it meets, visited or not
NextQueue_ForgetsVisited(h, w) ==
    LET currentMeta == Head(w.queue)
        keys == OwnKeys(h[currentMeta])
    IN  Tail(w.queue) \o Concat([i \in DOMAIN keys |->
            ValuePushes(h, h[currentMeta].props[keys[i]], {})])

\* the queue after one iteration that returned nothing: currentMeta shifted
\* off, and pushed what the for loop found that is not in visited, which
\* holds currentMeta by then
NextQueue(h, w) ==
    LET currentMeta == Head(w.queue)
        seen == w.visited \cup {currentMeta}
        keys == OwnKeys(h[currentMeta])
    IN  Tail(w.queue) \o Concat([i \in DOMAIN keys |->
            ValuePushes(h, h[currentMeta].props[keys[i]], seen)])

----------------------------------------------------------------------------
(* Initial states: what the application passes to FormProvider *)

Absent == "absent"
LeafKeys == {"__typename", "id", "required", "touched", "errorMessage"}

\* a metadata object literal; opts gives each property's value, or Absent
Leaf(opts) == Obj([k \in {x \in LeafKeys : opts[x] # Absent} |-> Prim(opts[k])])

LeafOf(t, i, r, tc, e) ==
    Leaf("__typename" :> t @@ "id" :> i @@ "required" :> r @@ "touched" :> tc
         @@ "errorMessage" :> e)

\* a FieldMeta literal carrying the tag and all four properties isFieldMeta looks for
FullLeaf(r, tc, e) == LeafOf("FieldMeta", "1", r, tc, e)

StateObj == Obj("forms" :> Ref(2) @@ "formsMeta" :> Ref(3))

\* two forms, both with metadata
SeededHeap ==
    <<StateObj,
      Obj("f" :> Ref(4) @@ "g" :> Ref(5)),
      Obj("f" :> Ref(6) @@ "g" :> Ref(7)),
      Obj("a" :> Prim("v1") @@ "b" :> Prim("v2")),
      Obj("a" :> Prim("v2")),
      Obj("a" :> Ref(8) @@ "b" :> Ref(9)),
      Obj("a" :> Ref(10)),
      FullLeaf("true", "false", "undefined"),
      FullLeaf("false", "false", "undefined"),
      FullLeaf("true", "true", "x")>>

\* one form; g has neither values nor metadata; the metadata literal of f.a
\* gives only the tag and required
SparseHeap ==
    <<StateObj,
      Obj("f" :> Ref(4)),
      Obj("f" :> Ref(5)),
      Obj("a" :> Prim("v1")),
      Obj("a" :> Ref(6)),
      LeafOf("FieldMeta", Absent, "true", Absent, Absent)>>

\* nested metadata: a group and an array of FieldMeta
NestedHeap ==
    <<StateObj,
      Obj("f" :> Ref(4)),
      Obj("f" :> Ref(5)),
      Obj("a" :> Prim("v1")),
      Obj("a" :> Ref(6) @@ "b" :> Ref(7)),
      Obj("c" :> Ref(8)),
      Arr("0" :> Ref(9) @@ "1" :> Ref(10)),
      FullLeaf("true", "true", "undefined"),
      FullLeaf("true", "true", "undefined"),
      FullLeaf("false", "false", "x")>>

Flags == {"undefined", "true", "false"}

\* the applications explored: what FormProvider is given, and the arguments
\* of the useFormValidity call below it
Applications ==
    {<<SeededHeap, "f", "undefined">>, <<SeededHeap, "g", "false">>,
     <<SparseHeap, "f", "true">>, <<SparseHeap, "g", "undefined">>,
     <<NestedHeap, "f", "false">>}

\* a variant whose useState starts from the evaluation of the metadata
InitWith_EvaluatesAtCreation(h, name, touchFlag) ==
    /\ heap = h
    /\ heapAtCreation = h
    /\ initialState = 1
    /\ state = 1
    /\ prevState = 1
    /\ queue = <<>>
    /\ lastAction = NoAction
    /\ steps = 0
    /\ formName = name
    /\ validateTouch = touchFlag
    /\ isFormValid = useFormValidityEffect(h, 1, name, touchFlag).valid
    /\ effectDeps = 0
    /\ thrown = "none"
    /\ overridden = FALSE
    /\ rendered = NoRender
    /\ lastCall = NoCall
    /\ walk = NoWalk

\* The state after the first render: the hook has returned its useState
\* value, false, and its effect has not run yet.  In every state with
\* thrown = "none" the hook's component is rendered with isFormValid.
InitWith(h, name, touchFlag) ==
    /\ heap = h
    /\ heapAtCreation = h
    /\ initialState = 1
    /\ state = 1
    /\ prevState = 1
    /\ queue = <<>>
    /\ lastAction = NoAction
    /\ steps = 0
    /\ formName = name
    /\ validateTouch = touchFlag
    /\ isFormValid = FALSE
    /\ effectDeps = 0
    /\ thrown = "none"
    /\ overridden = FALSE
    /\ rendered = NoRender
    /\ lastCall = NoCall
    /\ walk = NoWalk

Init ==
    /\ \E app \in Applications : InitWith(app[1], app[2], app[3])
    /\ provided = TRUE

----------------------------------------------------------------------------
(* Steps *)

\* the tree is mounted, no update is queued and the effects of the last
\* render have run: an event handler of the application may run
Idle ==
    /\ provided
    /\ thrown = "none"
    /\ queue = <<>>
    /\ effectDeps = formsMetaRef(heap, state)

\* an event handler of the application runs and calls dispatch once for each
\* of the actions, in this order: React queues them for the reducer
dispatches(actions) ==
    /\ Idle
    /\ steps < MaxSteps
    /\ steps' = steps + 1
    /\ queue' = queue \o actions
    /\ UNCHANGED <<heapAtCreation, initialState, state, prevState, lastAction>>
    /\ UNCHANGED hookVars
    /\ UNCHANGED treeVars

\* dispatch(action), called by the application itself
dispatch(action) ==
    /\ dispatches(<<action>>)
    /\ lastCall' = NoCall

FormValues == {"b" :> Prim("v1"), "a" :> Prim("v2") @@ "b" :> Prim("v1")}

MetaFieldValues ==
    {"__typename" :> Prim("FieldMeta") @@ "touched" :> True,
     "__typename" :> Prim("FieldMeta") @@ "errorMessage" :> Prim("x") @@ "showError" :> True,
     "__typename" :> Prim("FieldMeta") @@ "errorMessage" :> Undefined @@ "showError" :> False}

MetaLeaves == {FullLeaf("true", "false", "undefined")}

SetFormValue ==
    \E f \in FormKeys, formValue \in FormValues :
        /\ dispatch(Action("SET_FORM_VALUE", f, "", Undefined, formValue))
        /\ UNCHANGED heap

SetFormFieldValue ==
    \E f \in FormKeys, k \in FieldKeys, v \in Values :
        /\ dispatch(Action("SET_FORM_FIELD_VALUE", f, k, v, NoProps))
        /\ UNCHANGED heap

\* the caller builds metaValue: one field entry, a new FieldMeta object
SetFormMetaValue ==
    \E f \in FormKeys, k \in FieldKeys, leaf \in MetaLeaves :
        /\ heap' = Append(heap, leaf)
        /\ dispatch(Action("SET_FORM_META_VALUE", f, "", Undefined,
                           One(k, Ref(Len(heap) + 1))))

SetFormMetaFieldValue ==
    \E f \in FormKeys, k \in FieldKeys, m \in MetaFieldValues :
        /\ dispatch(Action("SET_FORM_META_FIELD_VALUE", f, k, Undefined, m))
        /\ UNCHANGED heap

ResetForm ==
    \E f \in FormKeys :
        /\ dispatch(Action("RESET_FORM", f, "", Undefined, NoProps))
        /\ UNCHANGED heap

ResetFormMeta ==
    \E f \in FormKeys :
        /\ dispatch(Action("RESET_FORM_META", f, "", Undefined, NoProps))
        /\ UNCHANGED heap

Reset ==
    /\ dispatch(Action("RESET", "", "", Undefined, NoProps))
    /\ UNCHANGED heap

\* dispatch of an object whose type is none of FormAction's (the type
\* checker rejects it; an untyped caller can pass it)
UnknownTypes == {"SET_FORM"}

DispatchUnknown ==
    \E type \in UnknownTypes, f \in FormKeys :
        /\ dispatch(Action(type, f, "", Undefined, NoProps))
        /\ UNCHANGED heap

\* React calls the reducer with the current state and the oldest queued action
Reduce ==
    /\ thrown = "none"
    /\ queue # <<>>
    /\ LET r == reducer(heap, state, initialState, Head(queue))
       IN  IF r.threw
           THEN /\ thrown' = "unhandled-action"
                /\ UNCHANGED <<heap, state, prevState, lastAction>>
           ELSE /\ heap' = r.heap
                /\ state' = r.state
                /\ prevState' = state
                /\ lastAction' = Head(queue)
                /\ thrown' = thrown
    /\ queue' = Tail(queue)
    /\ UNCHANGED <<heapAtCreation, initialState, steps, formName, validateTouch, isFormValid,
                   effectDeps, overridden, lastCall, walk>>
    /\ UNCHANGED treeVars

\* useEffect(..., [formName, formsMeta, validateTouch]): runs after the first
\* render and after every render in which formsMeta is another object
RunEffect ==
    /\ provided
    /\ thrown = "none"
    /\ queue = <<>>
    /\ effectDeps # formsMetaRef(heap, state)
    /\ LET r == useFormValidityEffect(heap, state, formName, validateTouch)
       IN  IF r.threw
           THEN /\ thrown' = "missing-metadata"
                /\ UNCHANGED isFormValid
           ELSE /\ isFormValid' = r.valid
                /\ thrown' = thrown
    /\ effectDeps' = formsMetaRef(heap, state)
    /\ overridden' = FALSE
    /\ UNCHANGED <<formName, validateTouch, lastCall, walk>>
    /\ UNCHANGED providerVars
    /\ UNCHANGED treeVars

\* the component calls the setter the hook returns
setIsFormValid ==
    \E valid \in BOOLEAN :
        /\ Idle
        /\ steps < MaxSteps
        /\ steps' = steps + 1
        /\ isFormValid' = valid
        /\ overridden' = TRUE
        /\ UNCHANGED <<formName, validateTouch, effectDeps, thrown, walk>>
        /\ UNCHANGED <<heap, heapAtCreation, initialState, state, prevState, queue,
                       lastAction, lastCall>>
        /\ UNCHANGED treeVars

Next ==
    \/ SetFormValue
    \/ SetFormFieldValue
    \/ SetFormMetaValue
    \/ SetFormMetaFieldValue
    \/ ResetForm
    \/ ResetFormMeta
    \/ Reset
    \/ DispatchUnknown
    \/ Reduce
    \/ RunEffect
    \/ setIsFormValid

Spec == Init /\ [][Next]_vars

\* the steps of RunEffect, told by what they do to effectDeps: no other
\* action changes it
EffectRuns ==
    /\ provided
    /\ thrown = "none"
    /\ queue = <<>>
    /\ effectDeps # formsMetaRef(heap, state)
    /\ effectDeps' = formsMetaRef(heap, state)

\* a component that edits field metadata and values, resets and overrides
\* the validity: one action of each kind that matters to the effect (a new
\* formsMeta object, the same one, the initial one, a manual value)
NextLive ==
    \/ SetFormMetaFieldValue
    \/ ResetFormMeta
    \/ ResetForm
    \/ Reset
    \/ setIsFormValid
    \/ Reduce
    \/ RunEffect

\* React applies every queued update and, after the render that follows,
\* runs every effect whose dependencies changed
SpecLive == Init /\ [][NextLive]_vars /\ WF_vars(Reduce) /\ WF_effectDeps(EffectRuns)

----------------------------------------------------------------------------
(* The hooks, as a component calls them while it renders: useFormContext,  *)
(* useFormValues, useFormMeta, useFormState, useFormDispatch and the       *)
(* render part of useFormValidity.  Both contexts are created with the     *)
(* default null; FormProvider gives them the state and dispatch.           *)

Null == Prim("null")

\* useContext(FormContext)
FormContextValue(p, st) == IF p THEN Ref(st) ELSE Null

\* useContext(FormDispatchContext)
FormDispatchContextValue(p) == IF p THEN Prim("dispatch") ELSE Null

\* a variant without the null test
useFormContext_ReturnsNull(p, st) ==
    Render("useFormContext", "", FALSE, <<FormContextValue(p, st)>>)

useFormContext(p, st) ==
    LET context == FormContextValue(p, st)
    IN  IF context = Null
        THEN Render("useFormContext", "", TRUE, <<>>)
        ELSE Render("useFormContext", "", FALSE, <<context>>)

\* const { forms } = useFormContext(); return forms[formName]
useFormValues(p, h, st, name) ==
    IF useFormContext(p, st).threw
    THEN Render("useFormValues", name, TRUE, <<>>)
    ELSE Render("useFormValues", name, FALSE, <<Get(h[formsRef(h, st)], name)>>)

\* a variant that destructures forms instead of formsMeta
useFormMeta_ReadsForms(p, h, st, name) ==
    IF useFormContext(p, st).threw
    THEN Render("useFormMeta", name, TRUE, <<>>)
    ELSE Render("useFormMeta", name, FALSE, <<Get(h[formsRef(h, st)], name)>>)

\* const { formsMeta } = useFormContext(); return formsMeta[formName]
useFormMeta(p, h, st, name) ==
    IF useFormContext(p, st).threw
    THEN Render("useFormMeta", name, TRUE, <<>>)
    ELSE Render("useFormMeta", name, FALSE, <<Get(h[formsMetaRef(h, st)], name)>>)

\* return [useFormValues(formName), useFormMeta(formName)]
useFormState(p, h, st, name) ==
    IF useFormValues(p, h, st, name).threw \/ useFormMeta(p, h, st, name).threw
    THEN Render("useFormState", name, TRUE, <<>>)
    ELSE Render("useFormState", name, FALSE,
                useFormValues(p, h, st, name).value \o useFormMeta(p, h, st, name).value)

useFormDispatch(p) ==
    LET context == FormDispatchContextValue(p)
    IN  IF context = Null
        THEN Render("useFormDispatch", "", TRUE, <<>>)
        ELSE Render("useFormDispatch", "", FALSE, <<context>>)

\* the render part of useFormValidity: useFormContext, useState, useEffect
\* (registered, run after the render), return [isFormValid, setIsFormValid]
useFormValidity(p, st, valid) ==
    IF useFormContext(p, st).threw
    THEN Render("useFormValidity", "", TRUE, <<>>)
    ELSE Render("useFormValidity", "", FALSE,
                <<IF valid THEN True ELSE False, Prim("setIsFormValid")>>)

\* a component renders and calls a hook; an error thrown while rendering
\* unmounts the tree
render(r) ==
    /\ thrown = "none"
    /\ queue = <<>>
    /\ rendered' = r
    /\ thrown' = IF r.threw THEN "outside-provider" ELSE thrown
    /\ UNCHANGED <<formName, validateTouch, isFormValid, effectDeps, overridden, provided,
                   lastCall, walk>>
    /\ UNCHANGED providerVars

RenderFormContext == render(useFormContext(provided, state))

RenderFormValues == \E name \in FormKeys : render(useFormValues(provided, heap, state, name))

RenderFormMeta == \E name \in FormKeys : render(useFormMeta(provided, heap, state, name))

RenderFormState == \E name \in FormKeys : render(useFormState(provided, heap, state, name))

RenderFormDispatch == render(useFormDispatch(provided))

RenderFormValidity == render(useFormValidity(provided, state, isFormValid))

\* the hooks are called below a FormProvider, or without one
InitHooks ==
    /\ \E app \in Applications : InitWith(app[1], app[2], app[3])
    /\ provided \in BOOLEAN

NextHooks ==
    \/ RenderFormContext
    \/ RenderFormValues
    \/ RenderFormMeta
    \/ RenderFormState
    \/ RenderFormDispatch
    \/ RenderFormValidity
    \/ SetFormFieldValue
    \/ ResetFormMeta
    \/ Reduce
    \/ RunEffect

SpecHooks == InitHooks /\ [][NextHooks]_vars

----------------------------------------------------------------------------
(* useFormHandler: the callbacks a form field calls.  Each is one event    *)
(* handler; the actions it dispatches are queued together and reduced in   *)
(* order before the effects of the next render run.                        *)

ErrorMessages == {Undefined, Prim("x")}

\* setAndShowError(formKey, fieldKey, errorMessage): the action it dispatches
setAndShowErrorActions(f, k, err) ==
    <<Action("SET_FORM_META_FIELD_VALUE", f, k, Undefined,
             "__typename" :> Prim("FieldMeta") @@ "errorMessage" :> err
             @@ "showError" :> (IF err # Undefined THEN True ELSE False))>>

\* a variant that dispatches the metadata updates before the value
handleChangeActions_ErrorBeforeTouched(f, k, v, err) ==
    setAndShowErrorActions(f, k, err)
    \o <<Action("SET_FORM_META_FIELD_VALUE", f, k, Undefined,
                "__typename" :> Prim("FieldMeta") @@ "touched" :> True),
         Action("SET_FORM_FIELD_VALUE", f, k, v, NoProps)>>

\* handleChange(formKey, fieldKey, fieldValue, errorMessage): the actions it
\* dispatches, the last one through setAndShowError
handleChangeActions(f, k, v, err) ==
    <<Action("SET_FORM_FIELD_VALUE", f, k, v, NoProps),
      Action("SET_FORM_META_FIELD_VALUE", f, k, Undefined,
             "__typename" :> Prim("FieldMeta") @@ "touched" :> True)>>
    \o setAndShowErrorActions(f, k, err)

\* a variant that also marks the field touched
handleBlurActions_AlsoTouches(f, k, err) ==
    <<Action("SET_FORM_META_FIELD_VALUE", f, k, Undefined,
             "__typename" :> Prim("FieldMeta") @@ "touched" :> True)>>
    \o setAndShowErrorActions(f, k, err)

\* handleBlur(formKey, fieldKey, errorMessage): setAndShowError and nothing else
handleBlurActions(f, k, err) == setAndShowErrorActions(f, k, err)

\* a variant that resets the values only
resetFormActions_OnlyValues(f) ==
    <<Action("RESET_FORM", f, "", Undefined, NoProps)>>

\* resetForm(formKey)
resetFormActions(f) ==
    <<Action("RESET_FORM", f, "", Undefined, NoProps),
      Action("RESET_FORM_META", f, "", Undefined, NoProps)>>

handleChange ==
    \E f \in FormKeys, k \in FieldKeys, v \in Values, err \in ErrorMessages :
        /\ dispatches(handleChangeActions(f, k, v, err))
        /\ lastCall' = Call("handleChange", f, k, v, err)
        /\ UNCHANGED heap

handleBlur ==
    \E f \in FormKeys, k \in FieldKeys, err \in ErrorMessages :
        /\ dispatches(handleBlurActions(f, k, err))
        /\ lastCall' = Call("handleBlur", f, k, Undefined, err)
        /\ UNCHANGED heap

resetForm ==
    \E f \in FormKeys :
        /\ dispatches(resetFormActions(f))
        /\ lastCall' = Call("resetForm", f, "", Undefined, Undefined)
        /\ UNCHANGED heap

NextHandlers ==
    \/ handleChange
    \/ handleBlur
    \/ resetForm
    \/ Reduce
    \/ RunEffect

SpecHandlers == Init /\ [][NextHandlers]_vars

----------------------------------------------------------------------------
(* The validity hook alone, over a bounded family of metadata trees: the   *)
(* field f.a is any object literal over the FieldMeta properties, placed   *)
(* directly in the form's metadata, in a group, in an array, or in a group *)
(* inside an array; form g has no metadata.                                *)

LeavesA ==
    {LeafOf(t, i, r, tc, e) :
        t \in {Absent, "FieldMeta"}, i \in {Absent, "1"},
        r \in {Absent, "true", "false"}, tc \in {Absent, "true", "false"},
        e \in {Absent, "undefined", "x"}}

LeavesB ==
    {LeafOf(Absent, Absent, "false", "false", Absent),
     LeafOf("FieldMeta", Absent, "false", "false", Absent),
     FullLeaf("false", "false", "undefined"),
     FullLeaf("true", "true", "undefined")}

Positions == {"field", "group", "array", "groupInArray"}

\* objects 1..7, then what the position of f.a needs
TreeHeap(leafA, leafB, position) ==
    <<StateObj,
      Obj("f" :> Ref(4)),
      Obj("f" :> Ref(5)),
      Obj("a" :> Prim("v1")),
      Obj("a" :> Ref(IF position = "field" THEN 6 ELSE 8) @@ "b" :> Ref(7)),
      leafA,
      leafB>>
    \o CASE position = "field" -> <<>>
         [] position = "group" -> <<Obj("c" :> Ref(6))>>
         [] position = "array" -> <<Arr("0" :> Ref(6))>>
         [] position = "groupInArray" -> <<Arr("0" :> Ref(9)), Obj("c" :> Ref(6))>>

InitValidity ==
    \E leafA \in LeavesA, leafB \in LeavesB, position \in Positions,
       name \in FormKeys, touchFlag \in Flags :
        /\ InitWith(TreeHeap(leafA, leafB, position), name, touchFlag)
        /\ provided = TRUE

NextValidity ==
    \/ RunEffect
    \/ setIsFormValid

SpecValidity == InitValidity /\ [][NextValidity]_vars

----------------------------------------------------------------------------
(* The effect of useFormValidity, one iteration of the walk at a time, on  *)
(* metadata whose objects are shared and refer back to their ancestors     *)

GraphLeaves ==
    {FullLeaf("true", "true", "undefined"),
     FullLeaf("true", "true", "x"),
     FullLeaf("true", "false", "undefined")}

\* f's metadata: the root 5 = {a, b}, the groups 6 = {c} and 7 = {c}, the
\* array 8 of two elements and the leaf 9
GraphHeap(ra, rb, xc, yc, e0, e1, leaf) ==
    <<StateObj,
      Obj("f" :> Ref(4)),
      Obj("f" :> Ref(5)),
      Obj("a" :> Prim("v1")),
      Obj("a" :> Ref(ra) @@ "b" :> Ref(rb)),
      Obj("c" :> Ref(xc)),
      Obj("c" :> Ref(yc)),
      Arr("0" :> Ref(e0) @@ "1" :> Ref(e1)),
      leaf>>

InitWalk ==
    \E ra \in {6, 8}, rb \in {7, 8}, xc \in {5, 6, 7, 8, 9}, yc \in {5, 9},
       e0 \in {5, 6, 7, 8, 9}, e1 \in {7, 9}, leaf \in GraphLeaves, name \in FormKeys :
        /\ InitWith(GraphHeap(ra, rb, xc, yc, e0, e1, leaf), name, "undefined")
        /\ provided = TRUE

\* the effect starts: it throws when the form has no metadata, and else
\* calls allFieldsMeetCondition for the first condition
EffectStarts ==
    /\ provided
    /\ thrown = "none"
    /\ queue = <<>>
    /\ effectDeps # formsMetaRef(heap, state)
    /\ walk.pc = "idle"
    /\ LET formMeta == Get(heap[formsMetaRef(heap, state)], formName)
       IN  IF formMeta = Undefined
           THEN /\ thrown' = "missing-metadata"
                /\ effectDeps' = formsMetaRef(heap, state)
                /\ overridden' = FALSE
                /\ UNCHANGED walk
           ELSE /\ walk' = StartWalk(walk, formMeta.ref, "haveBeenTouched")
                /\ UNCHANGED <<thrown, effectDeps, overridden>>
    /\ UNCHANGED <<formName, validateTouch, isFormValid, lastCall>>
    /\ UNCHANGED providerVars
    /\ UNCHANGED treeVars

\* allFieldsMeetCondition returns: the first call is followed by the second,
\* the second by the call of setIsFormValid
Returns(result) ==
    IF walk.c = "haveBeenTouched"
    THEN walk' = StartWalk([walk EXCEPT !.haveBeenTouched = result],
                           Get(heap[formsMetaRef(heap, state)], formName).ref,
                           "haveNoErrors")
    ELSE walk' = [walk EXCEPT !.pc = "returned", !.haveNoErrors = result,
                              !.queue = <<>>, !.visited = {}]

\* one iteration of while (queue.length > 0)
WalkStep ==
    /\ walk.pc = "walking"
    /\ walk.queue # <<>>
    /\ IF IterationFails(heap, walk)
       THEN Returns(FALSE)
       ELSE /\ Len(NextQueue(heap, walk)) <= MaxQueue
            /\ walk' = [walk EXCEPT !.queue = NextQueue(heap, walk),
                                    !.visited = @ \cup {Head(walk.queue)}]
    /\ UNCHANGED <<formName, validateTouch, isFormValid, effectDeps, thrown, overridden,
                   lastCall>>
    /\ UNCHANGED providerVars
    /\ UNCHANGED treeVars

\* the queue is empty: return true
WalkReturns ==
    /\ walk.pc = "walking"
    /\ walk.queue = <<>>
    /\ Returns(TRUE)
    /\ UNCHANGED <<formName, validateTouch, isFormValid, effectDeps, thrown, overridden,
                   lastCall>>
    /\ UNCHANGED providerVars
    /\ UNCHANGED treeVars

\* setIsFormValid(haveBeenTouched && haveNoErrors)
EffectSets ==
    /\ walk.pc = "returned"
    /\ isFormValid' = (walk.haveBeenTouched /\ walk.haveNoErrors)
    /\ effectDeps' = formsMetaRef(heap, state)
    /\ overridden' = FALSE
    /\ walk' = NoWalk
    /\ UNCHANGED <<formName, validateTouch, thrown, lastCall>>
    /\ UNCHANGED providerVars
    /\ UNCHANGED treeVars

NextWalk ==
    \/ EffectStarts
    \/ WalkStep
    \/ WalkReturns
    \/ EffectSets

\* the effect is one synchronous run of code: once React has started it,
\* every statement that can execute does
SpecWalk ==
    /\ InitWalk
    /\ [][NextWalk]_vars
    /\ WF_vars(EffectStarts)
    /\ WF_vars(WalkStep)
    /\ WF_vars(WalkReturns)
    /\ WF_vars(EffectSets)

----------------------------------------------------------------------------
(* SET_FORM_META_FIELD_VALUE with metaFieldValue: FieldMeta[]              *)

ArrayLeaves == {FullLeaf("true", "true", "x"), FullLeaf("true", "true", "undefined")}

\* the caller builds an array of one FieldMeta and dispatches it as
\* metaFieldValue; "...action.metaFieldValue" then contributes its element
\* under the key "0"
SetFormMetaFieldArray ==
    \E f \in FormKeys, k \in FieldKeys, leaf \in ArrayLeaves :
        /\ heap' = Append(heap, leaf)
        /\ dispatch(Action("SET_FORM_META_FIELD_VALUE", f, k, Undefined,
                           One("0", Ref(Len(heap) + 1))))

NextFieldArrays ==
    \/ SetFormMetaFieldValue
    \/ SetFormMetaFieldArray
    \/ Reduce
    \/ RunEffect

SpecFieldArrays == Init /\ [][NextFieldArrays]_vars

----------------------------------------------------------------------------
(* What the claims read *)

\* forms, as nested values: form key -> field key -> value
FormsView(h, st) ==
    [f \in DOMAIN h[formsRef(h, st)].props |-> SpreadOf(h, h[formsRef(h, st)].props[f])]

\* forms[f], an absent form read as the empty object
FormView(h, st, f) ==
    IF f \in DOMAIN FormsView(h, st) THEN FormsView(h, st)[f] ELSE NoProps

\* formsMeta[f]: a reference, or undefined
FormMeta(h, st, f) == Get(h[formsMetaRef(h, st)], f)

\* formsMeta[f][k] as an object, read as the empty object when it is missing
FieldMetaView(h, st, f, k) ==
    IF IsRef(FormMeta(h, st, f)) /\ IsRef(Get(h[FormMeta(h, st, f).ref], k))
    THEN h[Get(h[FormMeta(h, st, f).ref], k).ref]
    ELSE Obj(NoProps)

\* formsMeta[f] as a map from field key to entry, read as empty when missing
FormMetaView(h, st, f) == SpreadOf(h, FormMeta(h, st, f))

\* a step in which the reducer handles the oldest queued action
ReduceStep(type) ==
    /\ queue # <<>>
    /\ Len(queue') < Len(queue)
    /\ thrown' = "none"
    /\ Head(queue).type = type

\* every property name in the heap has its place in the walk's order
KeysKnown ==
    \A o \in DOMAIN heap :
        DOMAIN heap[o].props \subseteq {KeyOrder[i] : i \in DOMAIN KeyOrder}

\* the hook's value is the one its effect computed from the current formsMeta
Computed ==
    /\ thrown = "none"
    /\ queue = <<>>
    /\ effectDeps = formsMetaRef(heap, state)
    /\ ~overridden

\* the objects reachable from the objects in todo through properties and
\* array elements
RECURSIVE Reach(_, _, _)
Reach(h, todo, seen) ==
    IF todo = {} THEN seen
    ELSE LET o == CHOOSE x \in todo : TRUE
             refs == {h[o].props[k].ref : k \in {x \in DOMAIN h[o].props : IsRef(h[o].props[x])}}
         IN  Reach(h, (todo \cup refs) \ (seen \cup {o}), seen \cup {o})

\* the metadata objects of the form the hook is asked about
MetaObjects == Reach(heap, {FormMeta(heap, state, formName).ref}, {})

\* the FieldMeta leaves among them, told by the tag every FieldMeta carries
TaggedLeaves == {o \in MetaObjects : Get(heap[o], "__typename") = Prim("FieldMeta")}

FieldMetaProperties == {"__typename", "id", "required", "errorMessage", "showError", "touched"}

\* every object that has a FieldMeta property carries the tag
WellTagged ==
    \A o \in MetaObjects \ TaggedLeaves : DOMAIN heap[o].props \cap FieldMetaProperties = {}

\* every tagged leaf gives all of id, required, touched and errorMessage
AllPropertiesGiven ==
    \A o \in TaggedLeaves :
        {"id", "required", "touched", "errorMessage"} \subseteq DOMAIN heap[o].props

RequiredLeaves == {o \in TaggedLeaves : Get(heap[o], "required") = True}

\* the metadata of the hook's form is exactly {a: leafA, b: leafB}, the tag
\* of a leaf apart
TagApart(p) == [k \in DOMAIN p \ {"__typename"} |-> p[k]]

FormMetaIs(leafA, leafB) ==
    /\ IsRef(FormMeta(heap, state, formName))
    /\ LET meta == heap[FormMeta(heap, state, formName).ref]
       IN  /\ meta.kind = "object"
           /\ DOMAIN meta.props = {"a", "b"}
           /\ IsRef(meta.props["a"])
           /\ IsRef(meta.props["b"])
           /\ heap[meta.props["a"].ref].kind = "object"
           /\ heap[meta.props["b"].ref].kind = "object"
           /\ TagApart(heap[meta.props["a"].ref].props) = leafA
           /\ TagApart(heap[meta.props["b"].ref].props) = leafB

\* every object allocated before the step has the same contents after it
ObjectsKept == \A o \in DOMAIN heap : o \in DOMAIN heap' /\ heap'[o] = heap[o]

----------------------------------------------------------------------------
(* Claims *)

\* C1: SET_FORM_FIELD_VALUE(f, k, v) yields forms[f][k] = v with every other
\* field of forms[f] as before; an absent forms[f] counts as the empty object.
C1_SetFormFieldValue ==
    [][ReduceStep("SET_FORM_FIELD_VALUE") =>
        LET f == Head(queue).formKey
            k == Head(queue).fieldKey
            before == FormView(heap, state, f)
            after == FormView(heap', state', f)
        IN  /\ f \in DOMAIN FormsView(heap', state')
            /\ DOMAIN after = DOMAIN before \cup {k}
            /\ after[k] = Head(queue).fieldValue
            /\ \A j \in DOMAIN before \ {k} : after[j] = before[j]]_vars

\* C1 witness: the action has set a field of a form that has another field
C1_Witness ==
    /\ lastAction.type = "SET_FORM_FIELD_VALUE"
    /\ FormView(heap, state, lastAction.formKey)[lastAction.fieldKey]
           # Get(Obj(FormView(heap, prevState, lastAction.formKey)), lastAction.fieldKey)
    /\ DOMAIN FormView(heap, prevState, lastAction.formKey) \ {lastAction.fieldKey} # {}

\* C2: after any sequence of actions, RESET yields the initial state given
\* to the provider: the same object, with the contents it had at creation.
C2_ResetRestoresInitialState ==
    lastAction.type = "RESET" =>
        /\ state = initialState
        /\ \A o \in DOMAIN heapAtCreation : heap[o] = heapAtCreation[o]
        /\ FormsView(heap, state) = FormsView(heapAtCreation, initialState)

\* C2 witness: RESET was applied to a state that earlier actions had produced
C2_Witness ==
    /\ lastAction.type = "RESET"
    /\ prevState # initialState
    /\ FormsView(heap, prevState) # FormsView(heap, state)

C4_NoMutation == [][ObjectsKept]_vars

\* C4 witness: the state object the last reducer call received is still
\* there and reads differently from the state the call returned
C4_Witness ==
    /\ lastAction.type \in ActionTypes
    /\ prevState # state
    /\ FormsView(heap, prevState) # FormsView(heap, state)
    /\ FormMeta(heap, prevState, "f") # FormMeta(heap, initialState, "f")

\* C5 as stated: whatever the action and the state, the reducer returns an
\* object other than the one it was given.
C5_AlwaysNewObject ==
    [][(queue # <<>> /\ Len(queue') < Len(queue) /\ thrown' = "none") => state' # state]_vars

\* C5 amended: every action but RESET returns an object allocated by the
\* call; RESET returns the initial state object, which is the object given
\* when the state is still, or again, the initial one.
C5_NewObjectUnlessReset ==
    [][/\ \A type \in ActionTypes \ {"RESET"} :
              ReduceStep(type) => (state' # state /\ state' \notin DOMAIN heap)
       /\ ReduceStep("RESET") => state' = initialState]_vars

\* C5 witness: an action that changes no value still returned another object
C5_Witness ==
    /\ lastAction.type = "SET_FORM_FIELD_VALUE"
    /\ FormsView(heap, prevState) = FormsView(heap, state)
    /\ state # prevState


\* C6: with touch-checking enabled, the form is valid iff every required
\* FieldMeta leaf anywhere in its metadata is touched and has no errorMessage.
C6_ValidIffRequiredLeavesTouchedAndErrorFree ==
    (/\ Computed
     /\ validateTouch = "true"
     /\ IsRef(FormMeta(heap, state, formName))
     /\ WellTagged)
    => (isFormValid <=>
            \A o \in RequiredLeaves :
                /\ Get(heap[o], "touched") = True
                /\ Get(heap[o], "errorMessage") = Undefined)

\* C7: {a: {required: true, touched: true}, b: {required: false, touched:
\* false}} is valid with touch-checking enabled, and invalid with a.touched
\* = false.
C7_TouchedExample ==
    (Computed /\ validateTouch = "true") =>
        /\ FormMetaIs("required" :> True @@ "touched" :> True,
                      "required" :> False @@ "touched" :> False) => isFormValid
        /\ FormMetaIs("required" :> True @@ "touched" :> False,
                      "required" :> False @@ "touched" :> False) => ~isFormValid

\* C8: with errorMessage = "x" on the required field a the form is invalid,
\* whether a is touched or not.
C8_ErrorMessageExample ==
    Computed =>
        \A T \in {True, False} :
            FormMetaIs("required" :> True @@ "touched" :> T @@ "errorMessage" :> Prim("x"),
                       "required" :> False @@ "touched" :> False) => ~isFormValid

\* C9: with the require-touch flag false, validity does not depend on
\* touched: the form is valid iff every required leaf has no errorMessage.
C9_TouchIgnoredWhenFlagFalse ==
    (/\ Computed
     /\ validateTouch = "false"
     /\ IsRef(FormMeta(heap, state, formName))
     /\ WellTagged
     /\ AllPropertiesGiven)
    => (isFormValid <=>
            \A o \in RequiredLeaves : Get(heap[o], "errorMessage") = Undefined)

\* C10 as stated: for a form without a formsMeta entry the hook raises the
\* missing-metadata error and at no time reports true or false.
C10_NeverReportsWithoutMetadata ==
    FormMeta(heap, state, formName) = Undefined => thrown = "missing-metadata"

\* C10 amended: for a form without a formsMeta entry the hook returns its
\* initial value false until its effect runs; the effect then raises the
\* missing-metadata error and sets no validity.
C10_ThrowsWhenEffectRuns ==
    FormMeta(heap, state, formName) = Undefined =>
        /\ isFormValid = FALSE
        /\ IF effectDeps = 0 THEN thrown = "none" ELSE thrown = "missing-metadata"

\* C10 witness: the effect ran for a form without metadata and threw
C10_Witness ==
    /\ FormMeta(heap, state, formName) = Undefined
    /\ effectDeps # 0
    /\ thrown = "missing-metadata"

\* C11: once the dispatches of handleChange(f, k, v, err) have all been
\* applied, forms[f][k] = v, formsMeta[f][k].touched = true,
\* formsMeta[f][k].errorMessage = err and formsMeta[f][k].showError = (err is
\* defined), whatever the state the call was made in.
C11_HandleChangeSettles ==
    (lastCall.handler = "handleChange" /\ queue = <<>>) =>
        LET meta == FieldMetaView(heap, state, lastCall.formKey, lastCall.fieldKey)
        IN  /\ Get(Obj(FormView(heap, state, lastCall.formKey)), lastCall.fieldKey)
                   = lastCall.fieldValue
            /\ hasOwn(Obj(FormView(heap, state, lastCall.formKey)), lastCall.fieldKey)
            /\ Get(meta, "touched") = True
            /\ Get(meta, "errorMessage") = lastCall.errorMessage
            /\ Get(meta, "showError")
                   = (IF lastCall.errorMessage # Undefined THEN True ELSE False)

\* C11 witness: handleChange without an error message has settled on a field
\* that was created untouched and is now touched, cleared of its message
C11_Witness ==
    /\ lastCall.handler = "handleChange"
    /\ queue = <<>>
    /\ lastCall.errorMessage = Undefined
    /\ Get(FieldMetaView(heapAtCreation, initialState, lastCall.formKey, lastCall.fieldKey),
           "touched") = False
    /\ Get(FieldMetaView(heap, prevState, lastCall.formKey, lastCall.fieldKey),
           "errorMessage") = Prim("x")
    /\ Get(FieldMetaView(heap, state, lastCall.formKey, lastCall.fieldKey), "touched") = True
    /\ Get(FieldMetaView(heap, state, lastCall.formKey, lastCall.fieldKey), "showError") = False

\* C12: each of useFormContext, useFormValues, useFormMeta, useFormState,
\* useFormValidity and useFormDispatch throws when it is called without a
\* FormProvider above it, and returns when it is called below one.
C12_HooksThrowOutsideProvider ==
    rendered.hook # "none" =>
        /\ rendered.threw <=> ~provided
        /\ rendered.threw <=> thrown = "outside-provider"
        /\ ~rendered.threw => rendered.value # <<>>

\* C12 witness: useFormValidity was called without a provider and threw
C12_Witness ==
    /\ ~provided
    /\ rendered.hook = "useFormValidity"
    /\ rendered.threw
    /\ thrown = "outside-provider"

\* C13: for an action whose type is none of the seven, the reducer throws
\* and returns no state; the state the provider holds, and every object,
\* is as it was before the dispatch.
C13_UnknownActionThrows ==
    [][(/\ queue # <<>>
        /\ Len(queue') < Len(queue)
        /\ Head(queue).type \notin ActionTypes)
       => (/\ thrown' = "unhandled-action"
           /\ state' = state
           /\ heap' = heap
           /\ lastAction' = lastAction)]_vars

\* C13 witness: the reducer threw on an unknown action after it had handled
\* a known one
C13_Witness ==
    /\ thrown = "unhandled-action"
    /\ lastAction.type \in ActionTypes
    /\ state # initialState
    /\ queue = <<>>

\* C14: the reducer handles each of the seven action types in every state:
\* it returns a state and does not reach the default case.
C14_SevenTypesHandled ==
    [][\A type \in ActionTypes :
          (/\ queue # <<>>
           /\ Len(queue') < Len(queue)
           /\ Head(queue).type = type)
          => (/\ thrown' = "none"
              /\ lastAction' = Head(queue)
              /\ state' \in DOMAIN heap')]_vars

\* C14 witness: RESET_FORM_META, then RESET have been handled
C14_Witness ==
    /\ lastAction.type = "RESET"
    /\ thrown = "none"
    /\ \E o \in DOMAIN heap \ DOMAIN heapAtCreation :
           /\ DOMAIN heap[o].props = {"forms", "formsMeta"}
           /\ \E f \in FormKeys :
                  /\ IsRef(FormMeta(heap, o, f))
                  /\ heap[FormMeta(heap, o, f).ref] = Obj(NoProps)

\* C15: SET_FORM_VALUE(f, formValue) yields forms[f] with the fields of
\* formValue at the payload's values and every other previous field as it
\* was; a form key that was absent counts as the empty object.
C15_SetFormValueMerges ==
    [][ReduceStep("SET_FORM_VALUE") =>
        LET f == Head(queue).formKey
            formValue == Head(queue).payload
            before == FormView(heap, state, f)
            after == FormView(heap', state', f)
        IN  /\ f \in DOMAIN FormsView(heap', state')
            /\ DOMAIN after = DOMAIN before \cup DOMAIN formValue
            /\ \A j \in DOMAIN formValue : after[j] = formValue[j]
            /\ \A j \in DOMAIN before \ DOMAIN formValue : after[j] = before[j]]_vars

\* C15 witness: the merge overwrote one field and kept another
C15_Witness ==
    /\ lastAction.type = "SET_FORM_VALUE"
    /\ LET before == FormView(heap, prevState, lastAction.formKey)
           after == FormView(heap, state, lastAction.formKey)
       IN  /\ \E j \in DOMAIN before \ DOMAIN lastAction.payload : after[j] = before[j]
           /\ \E j \in DOMAIN before \cap DOMAIN lastAction.payload :
                  after[j] # before[j] /\ after[j] = lastAction.payload[j]

\* C16: SET_FORM_META_FIELD_VALUE(f, k, m) yields formsMeta[f][k] with the
\* properties of m at m's values and every other previous property (required,
\* id, ...) as it was; the entries of the other fields of formsMeta[f] are
\* the same objects as before.
C16_SetFormMetaFieldValueMerges ==
    [][ReduceStep("SET_FORM_META_FIELD_VALUE") =>
        LET f == Head(queue).formKey
            k == Head(queue).fieldKey
            m == Head(queue).payload
            before == FieldMetaView(heap, state, f, k).props
            after == FieldMetaView(heap', state', f, k).props
        IN  /\ IsRef(Get(Obj(FormMetaView(heap', state', f)), k))
            /\ DOMAIN after = DOMAIN before \cup DOMAIN m
            /\ \A j \in DOMAIN m : after[j] = m[j]
            /\ \A j \in DOMAIN before \ DOMAIN m : after[j] = before[j]
            /\ DOMAIN FormMetaView(heap', state', f)
                   = DOMAIN FormMetaView(heap, state, f) \cup {k}
            /\ \A j \in DOMAIN FormMetaView(heap, state, f) \ {k} :
                   /\ FormMetaView(heap', state', f)[j] = FormMetaView(heap, state, f)[j]
                   /\ FieldMetaView(heap', state', f, j) = FieldMetaView(heap, state, f, j)]_vars

\* C16 witness: the merge changed touched on a field that keeps its id and
\* required, in a form that has metadata for another field
C16_Witness ==
    /\ lastAction.type = "SET_FORM_META_FIELD_VALUE"
    /\ LET f == lastAction.formKey
           k == lastAction.fieldKey
           before == FieldMetaView(heap, prevState, f, k)
           after == FieldMetaView(heap, state, f, k)
       IN  /\ Get(before, "touched") = False
           /\ Get(after, "touched") = True
           /\ Get(after, "id") = Prim("1")
           /\ Get(after, "required") = True
           /\ DOMAIN FormMetaView(heap, state, f) \ {k} # {}

\* C17: SET_FORM_META_VALUE(f, metaValue) yields formsMeta[f] whose entries
\* are those of metaValue, as given and not merged with the entries they
\* replace, and every other previous entry as it was; a formsMeta[f] that
\* was absent counts as the empty object.
C17_SetFormMetaValueMerges ==
    [][ReduceStep("SET_FORM_META_VALUE") =>
        LET f == Head(queue).formKey
            metaValue == Head(queue).payload
            before == FormMetaView(heap, state, f)
            after == FormMetaView(heap', state', f)
        IN  /\ IsRef(FormMeta(heap', state', f))
            /\ DOMAIN after = DOMAIN before \cup DOMAIN metaValue
            /\ \A j \in DOMAIN metaValue :
                   /\ after[j] = metaValue[j]
                   /\ heap'[after[j].ref] = heap[metaValue[j].ref]
            /\ \A j \in DOMAIN before \ DOMAIN metaValue : after[j] = before[j]]_vars

\* C17 witness: the entry given replaced one with other contents, and the
\* entry of another field was kept
C17_Witness ==
    /\ lastAction.type = "SET_FORM_META_VALUE"
    /\ LET f == lastAction.formKey
           before == FormMetaView(heap, prevState, f)
           after == FormMetaView(heap, state, f)
       IN  /\ \E j \in DOMAIN before \ DOMAIN lastAction.payload : after[j] = before[j]
           /\ \E j \in DOMAIN before \cap DOMAIN lastAction.payload :
                  /\ after[j] # before[j]
                  /\ heap[after[j].ref] # heap[before[j].ref]

\* C18: the walk takes a metadata object for a FieldMeta leaf exactly when
\* the object carries the tag __typename = 'FieldMeta', whichever of id,
\* required, touched and errorMessage it has.
C18_LeafIffMarker ==
    (thrown = "none" /\ effectDeps # 0) =>
        \A o \in MetaObjects :
            isFieldMeta(heap, Ref(o)) <=> Get(heap[o], "__typename") = Prim("FieldMeta")

\* C19: handleChange(f, k, v, err) dispatches three actions in this order:
\* SET_FORM_FIELD_VALUE with v, SET_FORM_META_FIELD_VALUE with touched = true,
\* SET_FORM_META_FIELD_VALUE with errorMessage and showError; the reducer
\* takes them in that order, each on the state the previous call returned.
C19_HandleChangeDispatchOrder ==
    [][/\ (steps' = steps + 1 /\ lastCall'.handler = "handleChange") =>
            LET f == lastCall'.formKey
                k == lastCall'.fieldKey
                err == lastCall'.errorMessage
            IN  queue' =
                  <<[type |-> "SET_FORM_FIELD_VALUE", formKey |-> f, fieldKey |-> k,
                     fieldValue |-> lastCall'.fieldValue, payload |-> NoProps],
                    [type |-> "SET_FORM_META_FIELD_VALUE", formKey |-> f, fieldKey |-> k,
                     fieldValue |-> Undefined,
                     payload |-> ("__typename" :> Prim("FieldMeta") @@ "touched" :> True)],
                    [type |-> "SET_FORM_META_FIELD_VALUE", formKey |-> f, fieldKey |-> k,
                     fieldValue |-> Undefined,
                     payload |-> ("__typename" :> Prim("FieldMeta") @@ "errorMessage" :> err
                                  @@ "showError" :> (IF err = Undefined THEN False ELSE True))]>>
       /\ (lastCall.handler = "handleChange" /\ queue # <<>>) =>
            /\ queue' = Tail(queue)
            /\ lastAction' = Head(queue)
            /\ prevState' = state
            /\ state' = reducer(heap, state, initialState, Head(queue)).state
            /\ heap' = reducer(heap, state, initialState, Head(queue)).heap
            /\ thrown' = "none"]_vars

\* C19 witness: the touched-set has been applied to the state the value-set
\* returned, and the error-set is the one action still queued
C19_Witness ==
    /\ lastCall.handler = "handleChange"
    /\ Len(queue) = 1
    /\ "errorMessage" \in DOMAIN Head(queue).payload
    /\ lastAction.type = "SET_FORM_META_FIELD_VALUE"
    /\ "touched" \in DOMAIN lastAction.payload
    /\ prevState # initialState
    /\ Get(Obj(FormView(heap, prevState, lastCall.formKey)), lastCall.fieldKey)
           = lastCall.fieldValue
    /\ Get(Obj(FormView(heap, initialState, lastCall.formKey)), lastCall.fieldKey)
           # lastCall.fieldValue
    /\ Get(FieldMetaView(heap, prevState, lastCall.formKey, lastCall.fieldKey), "touched")
           # True
    /\ Get(FieldMetaView(heap, state, lastCall.formKey, lastCall.fieldKey), "touched") = True

\* C20: handleBlur(f, k, err) dispatches the error-set and nothing else: once
\* it is applied, formsMeta[f][k].errorMessage = err and showError = (err is
\* defined); forms and the touched, required and id of formsMeta[f][k] are as
\* before the call.
C20_HandleBlurOnlySetsError ==
    [][/\ (steps' = steps + 1 /\ lastCall'.handler = "handleBlur") =>
            queue' =
              <<[type |-> "SET_FORM_META_FIELD_VALUE", formKey |-> lastCall'.formKey,
                 fieldKey |-> lastCall'.fieldKey, fieldValue |-> Undefined,
                 payload |-> ("__typename" :> Prim("FieldMeta")
                              @@ "errorMessage" :> lastCall'.errorMessage
                              @@ "showError" :> (IF lastCall'.errorMessage = Undefined
                                                 THEN False ELSE True))]>>
       /\ (lastCall.handler = "handleBlur" /\ queue # <<>>) =>
            LET f == lastCall.formKey
                k == lastCall.fieldKey
                before == FieldMetaView(heap, state, f, k)
                after == FieldMetaView(heap', state', f, k)
            IN  /\ queue' = <<>>
                /\ thrown' = "none"
                /\ Get(after, "errorMessage") = lastCall.errorMessage
                /\ Get(after, "showError")
                       = (IF lastCall.errorMessage = Undefined THEN False ELSE True)
                /\ formsRef(heap', state') = formsRef(heap, state)
                /\ FormsView(heap', state') = FormsView(heap, state)
                /\ \A p \in {"touched", "required", "id"} :
                       /\ Get(after, p) = Get(before, p)
                       /\ hasOwn(after, p) <=> hasOwn(before, p)]_vars

\* C20 witness: handleBlur without a message cleared the message of a
\* touched, required field, which is still touched and required
C20_Witness ==
    /\ lastCall.handler = "handleBlur"
    /\ lastCall.errorMessage = Undefined
    /\ queue = <<>>
    /\ lastAction.type = "SET_FORM_META_FIELD_VALUE"
    /\ LET before == FieldMetaView(heap, prevState, lastCall.formKey, lastCall.fieldKey)
           after == FieldMetaView(heap, state, lastCall.formKey, lastCall.fieldKey)
       IN  /\ Get(before, "errorMessage") = Prim("x")
           /\ Get(before, "touched") = True
           /\ Get(after, "errorMessage") = Undefined
           /\ Get(after, "showError") = False
           /\ Get(after, "touched") = True
           /\ Get(after, "required") = True

C22_AccessorsReadCurrentState ==
    [][(rendered' # rendered /\ ~rendered'.threw) =>
        LET name == rendered'.name
            values == Get(heap[formsRef(heap, state)], name)
            meta == Get(heap[formsMetaRef(heap, state)], name)
        IN  /\ rendered'.hook = "useFormValues" => rendered'.value = <<values>>
            /\ rendered'.hook = "useFormMeta" => rendered'.value = <<meta>>
            /\ rendered'.hook = "useFormState" => rendered'.value = <<values, meta>>
            /\ rendered'.hook \in {"useFormValues", "useFormMeta", "useFormState"}
                   => name \in FormKeys
            /\ state' = state /\ heap' = heap]_vars

\* C22 witness: useFormState(g) returned the form object a dispatch created
\* for g and undefined for its metadata
C22_Witness ==
    /\ rendered.hook = "useFormState"
    /\ ~rendered.threw
    /\ state # initialState
    /\ rendered.value[1] = Get(heap[formsRef(heap, state)], rendered.name)
    /\ rendered.value[1] # Get(heap[formsRef(heap, initialState)], rendered.name)
    /\ IsRef(rendered.value[1])
    /\ rendered.value[2] = Undefined

\* C25: an action that names form key f leaves every other form alone: for
\* g other than f, forms[g] and formsMeta[g] are after the action the very
\* objects (or the absence) they were before it, and no object that existed
\* before the action has other contents after it.
C25_OtherFormsUntouched ==
    [][\A type \in ActionTypes \ {"RESET"} :
           ReduceStep(type) =>
               /\ Head(queue).formKey \in FormKeys
               /\ \A g \in FormKeys \ {Head(queue).formKey} :
                      /\ Get(heap'[formsRef(heap', state')], g)
                             = Get(heap[formsRef(heap, state)], g)
                      /\ FormMeta(heap', state', g) = FormMeta(heap, state, g)
               /\ ObjectsKept]_vars

\* C25 witness: a metadata action on one form replaced that form's metadata
\* while another form holds values and metadata, the same objects as before
C25_Witness ==
    /\ lastAction.type = "SET_FORM_META_FIELD_VALUE"
    /\ FormMeta(heap, state, lastAction.formKey)
           # FormMeta(heap, prevState, lastAction.formKey)
    /\ \E g \in FormKeys \ {lastAction.formKey} :
           /\ IsRef(FormMeta(heap, state, g))
           /\ FormMeta(heap, state, g) = FormMeta(heap, prevState, g)
           /\ IsRef(Get(heap[formsRef(heap, state)], g))
           /\ FormView(heap, state, g) # NoProps

\* C26: every action other than RESET keeps every form key: a key that
\* forms has before the action it has after it, and likewise formsMeta; the
\* reset of one form leaves its key in place with an empty object.
C26_KeysStay ==
    [][\A type \in ActionTypes \ {"RESET"} :
           ReduceStep(type) =>
               /\ DOMAIN heap[formsRef(heap, state)].props
                      \subseteq DOMAIN heap'[formsRef(heap', state')].props
               /\ DOMAIN heap[formsMetaRef(heap, state)].props
                      \subseteq DOMAIN heap'[formsMetaRef(heap', state')].props]_vars

\* C26 witness: RESET_FORM_META emptied the metadata of a form that had some,
\* and the form's key is still a key of formsMeta
C26_Witness ==
    /\ lastAction.type = "RESET_FORM_META"
    /\ FormMetaView(heap, prevState, lastAction.formKey) # NoProps
    /\ lastAction.formKey \in DOMAIN heap[formsMetaRef(heap, state)].props
    /\ FormMetaView(heap, state, lastAction.formKey) = NoProps
    /\ IsRef(FormMeta(heap, state, lastAction.formKey))

ValueSideTypes == {"SET_FORM_VALUE", "SET_FORM_FIELD_VALUE", "RESET_FORM"}

MetaSideTypes == {"SET_FORM_META_VALUE", "SET_FORM_META_FIELD_VALUE", "RESET_FORM_META"}

\* C28: a value-side action (SET_FORM_VALUE, SET_FORM_FIELD_VALUE, RESET_FORM)
\* returns a state whose formsMeta is the very object of the state before, a
\* metadata-side action returns a state whose forms is the very object of
\* the state before, and the validity effect never runs because of a
\* value-side action: after one, the effect's dependency is as up to date
\* as it was, and whenever the effect runs the last action was not one.
C28_SidesAreSeparate ==
    [][/\ \A type \in ValueSideTypes :
              ReduceStep(type) =>
                  /\ formsMetaRef(heap', state') = formsMetaRef(heap, state)
                  /\ heap'[formsMetaRef(heap', state')] = heap[formsMetaRef(heap, state)]
                  /\ formsRef(heap', state') # formsRef(heap, state)
                  /\ (effectDeps = formsMetaRef(heap, state))
                         => (effectDeps' = formsMetaRef(heap', state'))
                  /\ isFormValid' = isFormValid
       /\ \A type \in MetaSideTypes :
              ReduceStep(type) =>
                  /\ formsRef(heap', state') = formsRef(heap, state)
                  /\ heap'[formsRef(heap', state')] = heap[formsRef(heap, state)]
                  /\ formsMetaRef(heap', state') # formsMetaRef(heap, state)
       /\ (effectDeps' # effectDeps) => lastAction.type \notin ValueSideTypes]_vars

\* C28 witness: a value-side action changed the values of a form, the state
\* has the formsMeta object it had, and the hook's value is still the one
\* the effect computed before the action
C28_Witness ==
    /\ lastAction.type \in ValueSideTypes
    /\ FormsView(heap, state) # FormsView(heap, prevState)
    /\ formsMetaRef(heap, state) = formsMetaRef(heap, prevState)
    /\ state # prevState
    /\ Computed
    /\ isFormValid

C30_WitnessAbsent ==
    /\ lastAction.type = "RESET_FORM_META"
    /\ useFormValidityEffect(heap, prevState, lastAction.formKey, validateTouch).threw
    /\ ~useFormValidityEffect(heap, state, lastAction.formKey, validateTouch).threw

\* what the effect computes from the current state for the hook's form
Evaluated == useFormValidityEffect(heap, state, formName, validateTouch)

\* C29: a value given through the manual setter stays until an action yields
\* a state with another formsMeta object; every metadata-side action does,
\* whichever form it names, and the effect then runs again: the step after
\* the action replaces the manual value by the computed validity.  A
\* value-side action leaves the manual value in place.
C29_OverrideReplacedOnNewFormsMeta ==
    [][/\ \A type \in MetaSideTypes :
              (overridden /\ ReduceStep(type)) =>
                  /\ formsMetaRef(heap', state') # formsMetaRef(heap, state)
                  /\ effectDeps' # formsMetaRef(heap', state')
       /\ (/\ overridden
           /\ thrown = "none"
           /\ queue = <<>>
           /\ effectDeps # formsMetaRef(heap, state)
           /\ vars' # vars)
              => /\ ~Evaluated.threw
                 /\ isFormValid' = Evaluated.valid
                 /\ ~overridden'
                 /\ effectDeps' = formsMetaRef(heap, state)
                 /\ state' = state
       /\ \A type \in ValueSideTypes :
              (overridden /\ ReduceStep(type)) =>
                  /\ overridden'
                  /\ isFormValid' = isFormValid
                  /\ effectDeps' = formsMetaRef(heap', state')]_vars

\* C29 witness: the component set a value other than the computed one, an
\* action on another form then replaced formsMeta, and the effect is about
\* to run on the new object
C29_Witness ==
    /\ overridden
    /\ thrown = "none"
    /\ queue = <<>>
    /\ lastAction.type \in MetaSideTypes
    /\ lastAction.formKey # formName
    /\ effectDeps = formsMetaRef(heap, prevState)
    /\ effectDeps # formsMetaRef(heap, state)
    /\ ~Evaluated.threw
    /\ isFormValid # Evaluated.valid

\* the hook's value is the evaluation of the current formsMeta[formName]
Settled ==
    /\ thrown = "none"
    /\ queue = <<>>
    /\ effectDeps = formsMetaRef(heap, state)
    /\ ~overridden
    /\ ~Evaluated.threw
    /\ isFormValid = Evaluated.valid

\* C27: the reported validity is never left stale.  Whenever the state's
\* formsMeta is not the object the effect last evaluated, the hook
\* eventually reports the evaluation of the current formsMeta[formName] (or
\* the tree has been taken down by a thrown error); and as long as neither
\* a change of formsMeta nor a manual override follows, the reported value
\* is that evaluation.
C27_ValidityCatchesUp ==
    /\ [](Computed => (~Evaluated.threw /\ isFormValid = Evaluated.valid))
    /\ ((thrown = "none" /\ effectDeps # formsMetaRef(heap, state))
            ~> (thrown # "none" \/ Settled))

\* C27 witness: a metadata action changed the evaluation of the hook's form
\* and the hook reports the new one
C27_Witness ==
    /\ Settled
    /\ lastAction.type \in MetaSideTypes
    /\ lastAction.formKey = formName
    /\ useFormValidityEffect(heap, prevState, formName, validateTouch)
           = [threw |-> FALSE, valid |-> ~isFormValid]

\* the metadata objects of the hook's form that lie below an array
BelowArray ==
    UNION {Reach(heap, {a}, {}) \ {a} : a \in {o \in MetaObjects : heap[o].kind = "array"}}

\* C24: the elements of an array-valued property are tested when they are
\* leaves and walked when they are not, so that a required FieldMeta leaf
\* with an error message, at any depth below an array, makes the form
\* invalid.
C24_RequiredLeafBelowArrayInvalidates ==
    (thrown = "none" /\ effectDeps # 0 /\ ~overridden /\ WellTagged) =>
        ((\E o \in BelowArray \cap RequiredLeaves :
              Get(heap[o], "errorMessage") # Undefined)
            => ~isFormValid)

\* the objects an object refers to through its properties or elements
Children(h, o) == {h[o].props[k].ref : k \in {x \in DOMAIN h[o].props : IsRef(h[o].props[x])}}

\* some metadata object of the hook's form is reachable from itself
Cyclic == \E o \in MetaObjects : o \in Reach(heap, Children(heap, o), {})

\* some metadata object of the hook's form is referred to from two places
Shared ==
    \E o \in MetaObjects :
        Cardinality({pk \in MetaObjects \X DOMAIN KeyOrder :
                        Get(heap[pk[1]], KeyOrder[pk[2]]) = Ref(o)}) >= 2

\* C23: each call of allFieldsMeetCondition comes to its return, and the
\* effect to its end, on every metadata structure explored: trees, objects
\* referred to from several places, and reference cycles through objects
\* and arrays.  The queue stays shorter than the cap of the model.
C23_WalkTerminates ==
    /\ [](Len(walk.queue) < MaxQueue)
    /\ ((walk.pc = "walking") ~> (walk.pc # "walking"))
    /\ <>(thrown # "none" \/ effectDeps = formsMetaRef(heap, state))

\* C23 witness: both walks ran until their queue was empty on metadata with
\* a reference cycle and a shared object, and the effect has set its value
C23_Witness ==
    /\ formName = "f"
    /\ thrown = "none"
    /\ walk.pc = "idle"
    /\ effectDeps = formsMetaRef(heap, state)
    /\ isFormValid
    /\ Cyclic
    /\ Shared

\* C32: from the creation of the hook until its effect has run for the
\* first time, the hook reports false, whatever the metadata holds, also
\* when the metadata makes the form valid.
C32_FalseUntilFirstEvaluation == (effectDeps = 0) => (isFormValid = FALSE)

\* C32 witness: the first run of the effect is in its second walk and has
\* not set the value yet; the evaluation of the metadata will answer true
C32_Witness ==
    /\ effectDeps = 0
    /\ thrown = "none"
    /\ walk.pc = "walking"
    /\ walk.c = "haveNoErrors"
    /\ isFormValid = FALSE
    /\ Evaluated = [threw |-> FALSE, valid |-> TRUE]

\* C31: when handleChange(f, k, v, err) or handleBlur(f, k, err) was called
\* with a defined err for a field whose metadata has required = true, and
\* its dispatches are applied and the effect has run, the hook asked about
\* f reports false.
C31_ErrorOnRequiredFieldInvalidates ==
    (/\ lastCall.handler \in {"handleChange", "handleBlur"}
     /\ lastCall.errorMessage # Undefined
     /\ lastCall.formKey = formName
     /\ Computed
     /\ Get(FieldMetaView(heap, state, formName, lastCall.fieldKey), "required") = True)
        => ~isFormValid

\* the objects a walk from the objects in todo gets to see when no condition
\* fails: the object-valued properties of every object it takes off its
\* queue and the elements of the array-valued ones; those that are no
\* FieldMeta are queued in their turn
RECURSIVE Examined(_, _, _, _)
Examined(h, todo, expanded, seen) ==
    IF todo = {} THEN seen
    ELSE LET o == CHOOSE x \in todo : TRUE
             fields == UNION {IF h[v].kind = "array" THEN Children(h, v) ELSE {v} :
                                 v \in Children(h, o)}
             nested == {x \in fields : ~isFieldMeta(h, Ref(x))}
         IN  Examined(h, (todo \cup nested) \ (expanded \cup {o}),
                      expanded \cup {o}, seen \cup fields)

\* C33: SET_FORM_META_FIELD_VALUE(f, k, m) leaves in formsMeta[f][k] a new
\* plain object that holds the own properties of the previous value
\* overlaid with those of m, index-keyed where one of them is an array, and
\* the FieldMeta elements it holds under index keys are seen by the walk
\* over formsMeta[f].
C33_FieldValueIsMergedObject ==
    [][ReduceStep("SET_FORM_META_FIELD_VALUE") =>
        LET f == Head(queue).formKey
            k == Head(queue).fieldKey
            old == IF IsRef(FormMeta(heap, state, f))
                   THEN Get(heap[FormMeta(heap, state, f).ref], k)
                   ELSE Undefined
            new == Get(heap'[FormMeta(heap', state', f).ref], k)
        IN  /\ IsRef(new)
            /\ new.ref \notin DOMAIN heap
            /\ heap'[new.ref].kind = "object"
            /\ heap'[new.ref].props = Spread(SpreadOf(heap, old), Head(queue).payload)
            /\ \A i \in {"0", "1", "2"} :
                   IsRef(Get(heap'[new.ref], i)) =>
                       Get(heap'[new.ref], i).ref
                           \in Examined(heap', {FormMeta(heap', state', f).ref}, {}, {})]_vars

====
